---- MODULE Spec2Model ----
(***************************************************************************)
(* GoodDates (src/script.js): the date sampler generateGoodDates, the      *)
(* pillar calculator calculateBaZi and the calendar renderer               *)
(* renderCalendarRange.                                                    *)
(*                                                                         *)
(* A Date is modelled by the number of its local calendar day, counted     *)
(* from 1970-01-01.  Every Date of one call carries the same time of day   *)
(* (the ranges come from `new Date("YYYY-MM-DD")`, and setDate keeps the   *)
(* local time of day), so the day number orders Dates as their instants    *)
(* do, and (end - start) / 86400000 is the difference of the day numbers.  *)
(*                                                                         *)
(* Math.random is a pseudo-random generator whose seed is unknown: the     *)
(* seed is chosen freely by Init, every call of Math.random consumes one   *)
(* value of the stream.                                                    *)
(***************************************************************************)
EXTENDS Integers, Sequences, FiniteSets, TLC

VARIABLES
    pc,          \* position of the driver: "ready", "generated", "rendered", "computed"
    start,       \* generateGoodDates / renderCalendarRange: argument start
    end,         \* generateGoodDates / renderCalendarRange: argument end
    activities,  \* generateGoodDates: argument activities (array of codes)
    seed,        \* state of Math.random when generateGoodDates was entered
    rng,         \* current state of Math.random
    outcome,     \* how the call of generateGoodDates ended: "none" before it
    goodDates,   \* the array returned by generateGoodDates
    calendar,    \* the tables renderCalendarRange appended to the container
    dob,         \* calculateBaZi: argument dob (string)
    time,        \* calculateBaZi: argument time (string)
    baziChart,   \* the array returned by calculateBaZi; on the page, the chart shown
    loop,        \* the loops of generateGoodDates run step by step: their variables
    storage,     \* localStorage: the items baziProfile and baziOverride
    shown,       \* the page: list, explanations, notice and the hidden sections
    events,      \* number of events handled by the page so far
    lastEvent,   \* the last event handled: its kind, its form values, its outcome
    calls,       \* number of calls of generateGoodDates made by the handlers
    saved,       \* the chart of the last setItem('baziOverride', ...) that returned
    overrideSaves \* number of calls of setItem('baziOverride', ...) that returned

pageVars == <<storage, shown, events, lastEvent, calls, saved, overrideSaves>>

vars == <<pc, start, end, activities, seed, rng, outcome, goodDates, calendar, dob, time, baziChart,
          loop, pageVars>>

(***************************************************************************)
(* Bounds of the model.                                                    *)
(***************************************************************************)
MaxSpan == 31        \* largest end - start, in days, of a valid range
MaxInvalid == 2      \* largest start - end, in days, of an invalid range
RngBits == 5         \* Math.random yields k / 2^RngBits
MaxEarlyYear == 8    \* birth years -2 .. MaxEarlyYear, besides 1984 and 2024
MaxMonth == 13       \* birth months -1 .. MaxMonth
MaxSmallDay == 6     \* birth days -1 .. MaxSmallDay, besides 28 and 31
MaxHour == 24        \* birth hours -2 .. MaxHour
MaxGridYears == 28   \* the calendar is rendered for the months of this many years
MaxEvents == 2       \* events handled by the page after it is loaded
MaxLoopSpan == 2     \* largest end - start of the ranges whose loops run step by step

RngMod == 2 ^ RngBits

(***************************************************************************)
(* JavaScript arithmetic.                                                  *)
(***************************************************************************)
\* a % b of JavaScript: the remainder has the sign of the dividend.
JsRem(a, b) == IF a >= 0 THEN a % b ELSE 0 - ((0 - a) % b)

MathMin(a, b) == IF a <= b THEN a ELSE b

\* The stream of Math.random: the value after r.
NextRng(r) == (5 * r + 3) % RngMod

\* Math.floor(Math.random() * n), Math.random() being r / RngMod.
RandomIndex(r, n) == (r * n) \div RngMod

(***************************************************************************)
(* JavaScript Date, on day numbers (proleptic Gregorian calendar).         *)
(***************************************************************************)
DaysFromCivil(y, m, d) ==
    LET yy == IF m <= 2 THEN y - 1 ELSE y
        era == yy \div 400
        yoe == yy - era * 400
        mp == (m + 9) % 12
        doy == (153 * mp + 2) \div 5 + d - 1
        doe == yoe * 365 + yoe \div 4 - yoe \div 100 + doy
    IN  era * 146097 + doe - 719468

CivilFromDays(z) ==
    LET zz == z + 719468
        era == zz \div 146097
        doe == zz - era * 146097
        yoe == (doe - doe \div 1460 + doe \div 36524 - doe \div 146096) \div 365
        doy == doe - (365 * yoe + yoe \div 4 - yoe \div 100)
        mp == (5 * doy + 2) \div 153
        d == doy - (153 * mp + 2) \div 5 + 1
        m == IF mp < 10 THEN mp + 3 ELSE mp - 9
        y == yoe + era * 400 + (IF m <= 2 THEN 1 ELSE 0)
    IN  [year |-> y, month |-> m, day |-> d]

\* new Date(year, month, day): month is 0-based and may overflow, day may be 0.
NewDate(year, month, day) ==
    DaysFromCivil(year + month \div 12, (month % 12) + 1, 1) + day - 1

getFullYear(date) == CivilFromDays(date).year
getMonth(date) == CivilFromDays(date).month - 1
getDate(date) == CivilFromDays(date).day
getDay(date) == (date + 4) % 7

\* date.toDateString(): weekday, month, day of the month and year.
toDateString(date) == <<getDay(date), getMonth(date), getDate(date), getFullYear(date)>>

\* date.setDate(n): the day of the month becomes n, overflowing into the
\* following months.
setDate(date, n) == NewDate(getFullYear(date), getMonth(date), n)

(***************************************************************************)
(* generateGoodDates                                                       *)
(***************************************************************************)
\* The dash of the labels is written as a hyphen.
timeSlots ==
    << "05:00-06:30", "07:00-08:30", "09:00-10:30", "11:00-12:30", "13:00-14:30",
       "15:00-16:30", "17:00-18:30", "19:00-20:30", "21:00-22:30" >>

slotsNeeded == 3

qiMenDoors ==
    << "Open Door", "Rest Door", "Life Door", "Harm Door",
       "Delusion Door", "Scene Door", "Death Door", "Fear Door" >>
qiMenStars ==
    << "Chief Star", "Surprise Star", "Snake Star", "Tiger Star",
       "Pheasant Star", "Tortoise Star", "Dragon Star", "Earth Star" >>
qiMenDeities ==
    << "Chief Deity", "Surprise Deity", "Snake Deity", "Tiger Deity",
       "Pheasant Deity", "Tortoise Deity", "Dragon Deity", "Earth Deity" >>
baziElements == << "Wood", "Fire", "Earth", "Metal", "Water" >>

\* The switch of generateReasonForDate: the phrase of an activity code.
ActivityPhrase(act) ==
    CASE act = "marriage" -> "marriage"
      [] act = "travel" -> "travel"
      [] act = "move" -> "moving house/office"
      [] act = "contract" -> "signing a contract"
      [] act = "business" -> "launching a new business"
      [] act = "trading" -> "trading or investment"
      [] act = "health" -> "health matters"
      [] OTHER -> act

\* Mutant of ReasonTemplate: the caution sentence is never chosen.
ReasonTemplateAuspicious(isBad) == "Auspicious influences for"

\* if (isBad): the sentence of the reason, by its opening words.
ReasonTemplate(isBad) ==
    IF isBad THEN "Unfavorable influences for" ELSE "Auspicious influences for"

\* The text is kept as its template and the values substituted into it.
generateReasonForDate(date, acts, isBad, r) ==
    LET activitiesList == [k \in 1..Len(acts) |-> ActivityPhrase(acts[k])]
        r1 == NextRng(r)
        r2 == NextRng(r1)
        r3 == NextRng(r2)
        door == qiMenDoors[RandomIndex(r, Len(qiMenDoors)) + 1]
        star == qiMenStars[RandomIndex(r1, Len(qiMenStars)) + 1]
        deity == qiMenDeities[RandomIndex(r2, Len(qiMenDeities)) + 1]
        element == baziElements[RandomIndex(r3, Len(baziElements)) + 1]
    IN  [text |-> [template |-> ReasonTemplate(isBad),
                   activities |-> activitiesList,
                   door |-> door, star |-> star, deity |-> deity, element |-> element],
         rng |-> NextRng(r3)]

\* Mutant of SlotIsFree: a slot already used is taken again.
SlotIsFreeAlways(slot, usedSlots) == TRUE

\* if (!usedSlots.has(slot))
SlotIsFree(slot, usedSlots) == slot \notin usedSlots

\* The while loop of buildHourRecommendations for one activity.
RECURSIVE PickSlots(_, _, _, _, _)
PickSlots(act, usedSlots, picks, hours, r) ==
    IF picks < slotsNeeded
    THEN LET slot == timeSlots[RandomIndex(r, Len(timeSlots)) + 1]
         IN  IF SlotIsFree(slot, usedSlots)
             THEN PickSlots(act, usedSlots \cup {slot}, picks + 1,
                            Append(hours, [activity |-> act, time |-> slot]), NextRng(r))
             ELSE PickSlots(act, usedSlots, picks, hours, NextRng(r))
    ELSE [hours |-> hours, rng |-> r]

\* activities.forEach of buildHourRecommendations, from the k-th activity on.
RECURSIVE HoursFrom(_, _, _, _)
HoursFrom(acts, k, hours, r) ==
    IF k > Len(acts)
    THEN [hours |-> hours, rng |-> r]
    ELSE LET one == PickSlots(acts[k], {}, 0, hours, r)
         IN  HoursFrom(acts, k + 1, one.hours, one.rng)

buildHourRecommendations(acts, r) == HoursFrom(acts, 1, <<>>, r)

\* activities.includes('trading')
tradingSelected(acts) == \E k \in 1..Len(acts) : acts[k] = "trading"

\* Mutant of diffDaysOf: the last day of the range is not counted.
diffDaysExclusive(s, e) == e - s

\* Math.floor((end - start) / (1000 * 60 * 60 * 24)) + 1
diffDaysOf(s, e) == (e - s) + 1

\* Mutant of numberOfSuggestions: the week bucket ends before 7 days.
numberOfSuggestionsStrict(diffDays, trading) ==
    IF trading
    THEN diffDays
    ELSE IF diffDays < 7
         THEN MathMin(3, diffDays)
         ELSE IF diffDays <= 30
              THEN MathMin(6, diffDays)
              ELSE MathMin(12, diffDays)

\* Mutant of numberOfSuggestions: the count is not capped by the days.
numberOfSuggestionsUncapped(diffDays, trading) ==
    IF trading
    THEN diffDays
    ELSE IF diffDays <= 7 THEN 3 ELSE IF diffDays <= 30 THEN 6 ELSE 12

maxSuggestions == 12

numberOfSuggestions(diffDays, trading) ==
    IF trading
    THEN diffDays
    ELSE IF diffDays <= 7
         THEN MathMin(3, diffDays)
         ELSE IF diffDays <= 30
              THEN MathMin(6, diffDays)
              ELSE MathMin(maxSuggestions, diffDays)

\* Math.random() < 0.1
IsBadDraw(r) == r * 10 < RngMod

\* The for loop of the trading branch, from i on.
RECURSIVE TradingLoop(_, _, _, _, _, _)
TradingLoop(s, acts, diffDays, i, results, r) ==
    IF i < diffDays
    THEN LET currentDate == setDate(s, getDate(s) + i)
             isBad == IsBadDraw(r)
             reason == generateReasonForDate(currentDate, acts, isBad, NextRng(r))
             hrs == buildHourRecommendations(acts, reason.rng)
         IN  TradingLoop(s, acts, diffDays, i + 1,
                         Append(results, [date |-> currentDate, reasons |-> reason.text,
                                          hours |-> hrs.hours, bad |-> isBad]),
                         hrs.rng)
    ELSE [results |-> results, rng |-> r]

\* Mutant of DateIsNew: the membership test is dropped.
DateIsNewAlways(dateKey, selectedDates) == TRUE

\* if (!selectedDates.has(dateKey))
DateIsNew(dateKey, selectedDates) == dateKey \notin selectedDates

\* candidate.setDate(candidate.getDate() + offset)
CandidateDate(s, offset) == setDate(s, getDate(s) + offset)

\* The while loop of the other branch.
RECURSIVE SamplingLoop(_, _, _, _, _, _, _)
SamplingLoop(s, acts, diffDays, wanted, selectedDates, results, r) ==
    IF Cardinality(selectedDates) < wanted
    THEN LET offset == RandomIndex(r, diffDays)
             candidate == CandidateDate(s, offset)
             dateKey == toDateString(candidate)
         IN  IF DateIsNew(dateKey, selectedDates)
             THEN LET reason == generateReasonForDate(candidate, acts, FALSE, NextRng(r))
                      hrs == buildHourRecommendations(acts, reason.rng)
                  IN  SamplingLoop(s, acts, diffDays, wanted, selectedDates \cup {dateKey},
                                   Append(results, [date |-> candidate, reasons |-> reason.text,
                                                    hours |-> hrs.hours, bad |-> FALSE]),
                                   hrs.rng)
             ELSE SamplingLoop(s, acts, diffDays, wanted, selectedDates, results, NextRng(r))
    ELSE [results |-> results, rng |-> r]

\* results.sort((a, b) => a.date - b.date): a stable sort by date.
RECURSIVE InsertByDate(_, _)
InsertByDate(sorted, item) ==
    IF sorted = <<>>
    THEN <<item>>
    ELSE IF sorted[Len(sorted)].date - item.date <= 0
         THEN Append(sorted, item)
         ELSE Append(InsertByDate(SubSeq(sorted, 1, Len(sorted) - 1), item), sorted[Len(sorted)])

RECURSIVE SortFrom(_, _, _)
SortFrom(results, k, sorted) ==
    IF k > Len(results) THEN sorted
    ELSE SortFrom(results, k + 1, InsertByDate(sorted, results[k]))

\* Mutant of SortByDate: the array is left in the order of generation.
SortByDateSkipped(results) == results

SortByDate(results) == SortFrom(results, 1, <<>>)

\* The body of generateGoodDates up to the sort: the entries in the order
\* the loops pushed them.
GeneratedEntries(s, e, acts, r) ==
    LET diffDays == diffDaysOf(s, e)
        trading == tradingSelected(acts)
        wanted == numberOfSuggestions(diffDays, trading)
    IN  IF trading
        THEN TradingLoop(s, acts, diffDays, 0, <<>>, r)
        ELSE SamplingLoop(s, acts, diffDays, wanted, {}, <<>>, r)

\* The function returns normally on every input: it has no throw statement.
generateGoodDates(s, e, acts, r) ==
    LET gen == GeneratedEntries(s, e, acts, r)
    IN  [outcome |-> "returned", results |-> SortByDate(gen.results), rng |-> gen.rng]

(***************************************************************************)
(* renderCalendarRange                                                     *)
(***************************************************************************)
\* goodDates.forEach: the keys of the entries with and without the bad flag.
badDateSetOf(entries) ==
    {toDateString(entries[k].date) : k \in {n \in 1..Len(entries) : entries[n].bad}}
goodDateSetOf(entries) ==
    {toDateString(entries[k].date) : k \in {n \in 1..Len(entries) : ~entries[n].bad}}

\* Mutant of CellClass: the favorable set is looked up first.
CellClassGoodFirst(dateKey, goodDateSet, badDateSet) ==
    IF dateKey \in goodDateSet THEN "good-date"
    ELSE IF dateKey \in badDateSet THEN "bad-date"
    ELSE ""

\* Mutant of CellClass: only the favorable days are marked.
CellClassGoodOnly(dateKey, goodDateSet, badDateSet) ==
    IF dateKey \in goodDateSet THEN "good-date" ELSE ""

\* The class a day cell gets: "bad-date", "good-date" or none.
CellClass(dateKey, goodDateSet, badDateSet) ==
    IF dateKey \in badDateSet THEN "bad-date"
    ELSE IF dateKey \in goodDateSet THEN "good-date"
    ELSE ""

\* Mutant of IsLeadingPad: the row is not tested.
IsLeadingPadAnyRow(i, j, firstDayIndex) == j < firstDayIndex

\* if (i === 0 && j < firstDayIndex): the empty cells before the first day.
IsLeadingPad(i, j, firstDayIndex) == i = 0 /\ j < firstDayIndex

\* The inner for loop of renderMonth: the cells j..6 of row i.  A cell is
\* its text (the day number, 0 for the empty text) and its class.
RECURSIVE RowFrom(_, _, _, _, _, _, _, _, _, _)
RowFrom(year, month, firstDayIndex, totalDays, goodDateSet, badDateSet, i, j, dateCounter, row) ==
    IF j < 7
    THEN IF IsLeadingPad(i, j, firstDayIndex)
         THEN RowFrom(year, month, firstDayIndex, totalDays, goodDateSet, badDateSet, i, j + 1,
                      dateCounter, Append(row, [day |-> 0, class |-> ""]))
         ELSE IF dateCounter > totalDays
              THEN RowFrom(year, month, firstDayIndex, totalDays, goodDateSet, badDateSet, i, j + 1,
                           dateCounter, Append(row, [day |-> 0, class |-> ""]))
              ELSE LET currentDate == NewDate(year, month, dateCounter)
                       dateKey == toDateString(currentDate)
                   IN  RowFrom(year, month, firstDayIndex, totalDays, goodDateSet, badDateSet, i, j + 1,
                               dateCounter + 1,
                               Append(row, [day |-> dateCounter,
                                            class |-> CellClass(dateKey, goodDateSet, badDateSet)]))
    ELSE [row |-> row, dateCounter |-> dateCounter]

\* The outer for loop of renderMonth, with its break.
RECURSIVE RowsFrom(_, _, _, _, _, _, _, _, _)
RowsFrom(year, month, firstDayIndex, totalDays, goodDateSet, badDateSet, i, dateCounter, rows) ==
    IF i < 6
    THEN LET r == RowFrom(year, month, firstDayIndex, totalDays, goodDateSet, badDateSet,
                          i, 0, dateCounter, <<>>)
         IN  IF r.dateCounter > totalDays
             THEN Append(rows, r.row)
             ELSE RowsFrom(year, month, firstDayIndex, totalDays, goodDateSet, badDateSet,
                           i + 1, r.dateCounter, Append(rows, r.row))
    ELSE rows

\* One table: its caption (year and month) and its rows.
renderMonth(date, goodDateSet, badDateSet) ==
    LET year == getFullYear(date)
        month == getMonth(date)
        firstDay == NewDate(year, month, 1)
        lastDay == NewDate(year, month + 1, 0)
        firstDayIndex == getDay(firstDay)
        totalDays == getDate(lastDay)
    IN  [year |-> getFullYear(firstDay), month |-> getMonth(firstDay),
         rows |-> RowsFrom(year, month, firstDayIndex, totalDays, goodDateSet, badDateSet,
                           0, 1, <<>>)]

\* Mutant of NextMonth: the step skips a month.
NextMonthSkipping(current) == NewDate(getFullYear(current), getMonth(current) + 2, 1)

\* current = new Date(current.getFullYear(), current.getMonth() + 1, 1)
NextMonth(current) == NewDate(getFullYear(current), getMonth(current) + 1, 1)

\* while (current <= last)
RECURSIVE MonthsFrom(_, _, _, _, _)
MonthsFrom(current, last, goodDateSet, badDateSet, tables) ==
    IF current <= last
    THEN MonthsFrom(NextMonth(current), last, goodDateSet, badDateSet,
                    Append(tables, renderMonth(current, goodDateSet, badDateSet)))
    ELSE tables

\* The first of the month of a date.
FirstOfMonth(date) == NewDate(getFullYear(date), getMonth(date), 1)

renderCalendarRange(entries, startDate, endDate) ==
    MonthsFrom(FirstOfMonth(startDate), FirstOfMonth(endDate),
               goodDateSetOf(entries), badDateSetOf(entries), <<>>)

(***************************************************************************)
(* calculateBaZi                                                           *)
(***************************************************************************)
stems == << "Jia", "Yi", "Bing", "Ding", "Wu", "Ji", "Geng", "Xin", "Ren", "Gui" >>
branches == << "Zi", "Chou", "Yin", "Mao", "Chen", "Si", "Wu", "Wei", "Shen", "You", "Xu", "Hai" >>

\* A string is a sequence of tokens: a run of digits (its value), or one
\* other character.
Digits(n) == [c |-> "0", n |-> n]
Char(c) == [c |-> c, n |-> 0]

\* The decimal text of an integer.
NumberText(n) == IF n < 0 THEN <<Char("-"), Digits(0 - n)>> ELSE <<Digits(n)>>

\* "YYYY-MM-DD" and "HH:MM"
DobText(year, month, day) ==
    NumberText(year) \o <<Char("-")>> \o NumberText(month) \o <<Char("-")>> \o NumberText(day)
TimeText(hour, minute) == NumberText(hour) \o <<Char(":")>> \o NumberText(minute)

\* str.split(sep)
RECURSIVE SplitFrom(_, _, _, _, _)
SplitFrom(str, sep, k, part, parts) ==
    IF k > Len(str)
    THEN Append(parts, part)
    ELSE IF str[k] = Char(sep)
         THEN SplitFrom(str, sep, k + 1, <<>>, Append(parts, part))
         ELSE SplitFrom(str, sep, k + 1, Append(part, str[k]), parts)

split(str, sep) == SplitFrom(str, sep, 1, <<>>, <<>>)

\* Number(part) of an empty string, of digits and of signed digits.
Number(part) ==
    IF part = <<>> THEN 0
    ELSE IF Len(part) = 1 THEN part[1].n
    ELSE IF part[1].c = "-" THEN 0 - part[2].n ELSE part[2].n

\* table[index] of a JavaScript array: undefined outside 0 .. length - 1.
At(table, index) ==
    IF index >= 0 /\ index < Len(table) THEN table[index + 1] ELSE "undefined"

\* Mutant of FinalIndex: the size is not added before the remainder.
FinalIndexRaw(index, size) == JsRem(index, size)

\* The index the return statement applies to a table of the given size.
FinalIndex(index, size) == JsRem(index + size, size)

\* Mutant of YearStemIndex: the cycle is anchored one year off.
YearStemIndexShifted(year) == JsRem(year - 3, 10)

\* const yearStemIndex = (year - 4) % 10
YearStemIndex(year) == JsRem(year - 4, 10)

calculateBaZi(dobStr, timeStr) ==
    LET dateParts == [k \in 1..Len(split(dobStr, "-")) |-> Number(split(dobStr, "-")[k])]
        timeParts == [k \in 1..Len(split(timeStr, ":")) |-> Number(split(timeStr, ":")[k])]
        year == dateParts[1]
        month == dateParts[2]
        day == dateParts[3]
        hour == timeParts[1]
        yearStemIndex == YearStemIndex(year)
        yearBranchIndex == JsRem(year - 4, 12)
        monthStemIndex == JsRem(month + yearStemIndex, 10)
        monthBranchIndex == JsRem(month + 1, 12)
        dayStemIndex == JsRem(day + monthStemIndex, 10)
        dayBranchIndex == JsRem(day + monthBranchIndex, 12)
        hourBlock == JsRem((hour + 1) \div 2, 12)
        hourStemIndex == JsRem(dayStemIndex + hourBlock, 10)
        hourBranchIndex == hourBlock
    IN  << [pillar |-> "Year", stem |-> At(stems, FinalIndex(yearStemIndex, 10)),
            branch |-> At(branches, FinalIndex(yearBranchIndex, 12))],
           [pillar |-> "Month", stem |-> At(stems, FinalIndex(monthStemIndex, 10)),
            branch |-> At(branches, FinalIndex(monthBranchIndex, 12))],
           [pillar |-> "Day", stem |-> At(stems, FinalIndex(dayStemIndex, 10)),
            branch |-> At(branches, FinalIndex(dayBranchIndex, 12))],
           [pillar |-> "Hour", stem |-> At(stems, FinalIndex(hourStemIndex, 10)),
            branch |-> At(branches, FinalIndex(hourBranchIndex, 12))] >>

(***************************************************************************)
(* The sampler and the calendar renderer, applied to the ranges, the       *)
(* activities and the seeds of the bounds.                                 *)
(***************************************************************************)
\* The options of the activities select, in the order of the switch of
\* generateReasonForDate.
activityOptions ==
    << "marriage", "travel", "move", "contract", "business", "trading", "health" >>

\* The options the model selects from.
Selectable == {"travel", "trading"}

\* Array.from(activitiesSelect.selectedOptions): the selected options in
\* the order of the document.
SelectedOf(S) == SelectSeq(activityOptions, LAMBDA c : c \in S)

ActivityChoices == {SelectedOf(S) : S \in SUBSET Selectable}

\* 25 December 2023, 1 January 2024, 20 February 2024
StartDays == {NewDate(2023, 11, 25), NewDate(2024, 0, 1), NewDate(2024, 1, 20)}

NoChart == <<>>

\* The loops are not run step by step.
NoLoop ==
    [at |-> "none", i |-> 0, selectedDates |-> {}, k |-> 0, usedSlots |-> {}, picks |-> 0,
     repeated |-> FALSE]

\* localStorage without the two items: getItem returns null (the empty text).
EmptyStorage == [baziProfile |-> <<>>, baziOverride |-> <<>>]

\* The page as the document has it before any handler ran.
NothingShown ==
    [chart |-> <<>>, list |-> <<>>, explanations |-> <<>>, notice |-> "",
     baziHidden |-> TRUE, resultsHidden |-> TRUE, overrideHidden |-> TRUE]

NoEvent ==
    [kind |-> "none", form |-> <<>>, storeFailed |-> FALSE, accepted |-> FALSE,
     afterFailedLoad |-> FALSE]

\* No page: the functions are applied on their own.
PageIdle ==
    /\ storage = EmptyStorage
    /\ shown = NothingShown
    /\ events = 0
    /\ lastEvent = NoEvent
    /\ calls = 0
    /\ saved = NoChart
    /\ overrideSaves = 0

InitSampler ==
    /\ pc = "ready"
    /\ start \in StartDays
    /\ end \in {start + k : k \in (0 - MaxInvalid)..MaxSpan}
    /\ activities \in ActivityChoices
    /\ seed \in 0..(RngMod - 1)
    /\ rng = seed
    /\ outcome = "none"
    /\ goodDates = <<>>
    /\ calendar = <<>>
    /\ dob = <<>>
    /\ time = <<>>
    /\ baziChart = NoChart
    /\ loop = NoLoop
    /\ PageIdle

\* const goodDates = generateGoodDates(startDate, endDate, selectedActivities)
CallGenerateGoodDates ==
    /\ pc = "ready"
    /\ LET ret == generateGoodDates(start, end, activities, rng)
       IN  /\ outcome' = ret.outcome
           /\ goodDates' = ret.results
           /\ rng' = ret.rng
    /\ pc' = "generated"
    /\ UNCHANGED <<start, end, activities, seed, calendar, dob, time, baziChart, loop, pageVars>>

\* renderCalendarRange(goodDates, calendarContainer, startDate, endDate)
CallRenderCalendarRange ==
    /\ pc = "generated"
    /\ calendar' = renderCalendarRange(goodDates, start, end)
    /\ pc' = "rendered"
    /\ UNCHANGED <<start, end, activities, seed, rng, outcome, goodDates, dob, time, baziChart, loop, pageVars>>

NextSampler == CallGenerateGoodDates \/ CallRenderCalendarRange

SpecSampler == InitSampler /\ [][NextSampler]_vars

(***************************************************************************)
(* The pillar calculator, applied to the birth dates and times of the      *)
(* bounds.                                                                 *)
(***************************************************************************)
BirthYears == ((0 - 2)..MaxEarlyYear) \cup {1984, 2024}
BirthMonths == (0 - 1)..MaxMonth
BirthDays == ((0 - 1)..MaxSmallDay) \cup {28, 31}
BirthHours == (0 - 2)..MaxHour

InitBaZi ==
    /\ pc = "ready"
    /\ dob \in {DobText(y, m, d) : y \in BirthYears, m \in BirthMonths, d \in BirthDays}
    /\ time \in {TimeText(h, 0) : h \in BirthHours}
    /\ baziChart = NoChart
    /\ start = 0
    /\ end = 0
    /\ activities = <<>>
    /\ seed = 0
    /\ rng = 0
    /\ outcome = "none"
    /\ goodDates = <<>>
    /\ calendar = <<>>
    /\ loop = NoLoop
    /\ PageIdle

\* const baziChart = calculateBaZi(dobStr, timeStr)
CallCalculateBaZi ==
    /\ pc = "ready"
    /\ baziChart' = calculateBaZi(dob, time)
    /\ pc' = "computed"
    /\ UNCHANGED <<start, end, activities, seed, rng, outcome, goodDates, calendar, dob, time, loop, pageVars>>

NextBaZi == CallCalculateBaZi

SpecBaZi == InitBaZi /\ [][NextBaZi]_vars

(***************************************************************************)
(* The page: the DOMContentLoaded handler with loadProfile, the submit     *)
(* handler of the form and the click handler of applyOverrideBtn.  The     *)
(* values of the form fields are an input of each event (the user may      *)
(* edit any field between two events, and what loadProfile fills in is     *)
(* among the values the events choose from).  A call of localStorage may   *)
(* throw.                                                                  *)
(***************************************************************************)
maxRangeDays == 92

\* The text of a date input for a day: "YYYY-MM-DD".
DateText(day) ==
    LET c == CivilFromDays(day) IN DobText(c.year, c.month, c.day)

\* new Date("YYYY-MM-DD"): the day the text names (midnight UTC of it, in
\* a zone where that instant falls on the same local day).
ParseDate(text) ==
    LET parts == split(text, "-")
    IN  DaysFromCivil(Number(parts[1]), Number(parts[2]), Number(parts[3]))

\* location.trim()
Trim(str) == IF str = " " THEN "" ELSE str

\* JSON.stringify(overrideChart): the text, token by token.
RECURSIVE JsonItems(_, _)
JsonItems(chart, k) ==
    IF k > Len(chart) THEN <<>>
    ELSE << "{", "pillar", chart[k].pillar, "stem", chart[k].stem,
            "branch", chart[k].branch, "}" >> \o JsonItems(chart, k + 1)

JsonStringify(chart) == << "[" >> \o JsonItems(chart, 1) \o << "]" >>

\* The value of a key of the k-th object of the text of an array.
JsonValue(text, k, key) ==
    LET base == 1 + 8 * (k - 1)
        at == CHOOSE n \in {base + 2, base + 4, base + 6} : text[n] = key
    IN  text[at + 1]

\* Mutant of JsonParse: stem and branch are read from each other's key.
JsonParseCrossed(text) ==
    [k \in 1..((Len(text) - 2) \div 8) |->
        [pillar |-> JsonValue(text, k, "pillar"),
         stem |-> JsonValue(text, k, "branch"),
         branch |-> JsonValue(text, k, "stem")]]

\* JSON.parse(override)
JsonParse(text) ==
    [k \in 1..((Len(text) - 2) \div 8) |->
        [pillar |-> JsonValue(text, k, "pillar"),
         stem |-> JsonValue(text, k, "stem"),
         branch |-> JsonValue(text, k, "branch")]]

\* renderBaZiChart(chart): the rows of the table, a cell per key.
renderBaZiChart(chart) ==
    [k \in 1..Len(chart) |-> <<chart[k].pillar, chart[k].stem, chart[k].branch>>]

generateActivityName(code) ==
    CASE code = "marriage" -> "Marriage"
      [] code = "travel" -> "Travel"
      [] code = "move" -> "Move House/Office"
      [] code = "contract" -> "Signing Contract"
      [] code = "business" -> "Launching New Business"
      [] code = "trading" -> "Trading/Investment"
      [] code = "health" -> "Health & Medical"
      [] OTHER -> code

\* item.date.toLocaleDateString(...): year, month and day.
toLocaleDateString(date) == <<getFullYear(date), getMonth(date) + 1, getDate(date)>>

HourLines(hours) ==
    [n \in 1..Len(hours) |-> <<generateActivityName(hours[n].activity), hours[n].time>>]

\* renderListResults(goodDates, listContainer): the items of the list.
renderListResults(entries) ==
    [k \in 1..Len(entries) |->
        [date |-> toLocaleDateString(entries[k].date), reasons |-> entries[k].reasons,
         hours |-> HourLines(entries[k].hours), badDay |-> entries[k].bad]]

\* renderExplanations(goodDates): a bad day lists no hours.
renderExplanations(entries) ==
    [k \in 1..Len(entries) |->
        [date |-> toLocaleDateString(entries[k].date), reasons |-> entries[k].reasons,
         unfavorable |-> entries[k].bad,
         hours |-> IF entries[k].bad THEN <<>> ELSE HourLines(entries[k].hours)]]

\* Mutant of saveProfile: the other item of the store is removed.
saveProfileClearing(store, data, fails) ==
    IF fails THEN store ELSE [baziProfile |-> <<data>>, baziOverride |-> <<>>]

\* saveProfile(data): localStorage after the call; the item is the text of
\* the object, kept as the object.
saveProfile(store, data, fails) ==
    IF fails THEN store ELSE [store EXCEPT !.baziProfile = <<data>>]

\* Mutant of saveProfileEscapes: the exception is not caught.
saveProfileUncaught(fails) == fails

\* Whether an exception of setItem leaves saveProfile: catch (e) takes it.
saveProfileEscapes(fails) == FALSE

\* Mutant of SubmitRejects: the length of the range is not tested.
SubmitRejectsNoCap(form) ==
    \/ form.dob = <<>> \/ form.birthTime = <<>> \/ form.gender = ""
    \/ Trim(form.location) = "" \/ Len(form.activities) = 0
    \/ form.startDate = <<>> \/ form.endDate = <<>>
    \/ ParseDate(form.endDate) < ParseDate(form.startDate)

\* The validation of the submit handler: whether it returns early.
SubmitRejects(form) ==
    \/ form.dob = <<>> \/ form.birthTime = <<>> \/ form.gender = ""
    \/ Trim(form.location) = "" \/ Len(form.activities) = 0
    \/ form.startDate = <<>> \/ form.endDate = <<>>
    \/ ParseDate(form.endDate) < ParseDate(form.startDate)
    \/ ParseDate(form.endDate) - ParseDate(form.startDate) > maxRangeDays

\* Mutant of ApplyRejects: the length of the range is not tested.
ApplyRejectsNoCap(form) ==
    \/ form.startDate = <<>> \/ form.endDate = <<>>
    \/ ParseDate(form.endDate) < ParseDate(form.startDate)

\* The validation of the click handler of applyOverrideBtn.
ApplyRejects(form) ==
    \/ form.startDate = <<>> \/ form.endDate = <<>>
    \/ ParseDate(form.endDate) < ParseDate(form.startDate)
    \/ ParseDate(form.endDate) - ParseDate(form.startDate) > 92

\* 30 January 2024, the start date of the forms.
FormStart == NewDate(2024, 0, 30)

BaseForm ==
    [dob |-> DobText(1984, 1, 1), birthTime |-> TimeText(0, 0), gender |-> "female",
     location |-> "Singapore", activities |-> << "travel" >>,
     startDate |-> DateText(FormStart), endDate |-> DateText(FormStart)]

\* The forms a submit event may find: complete ones (a day of travel, two
\* days of trading, the longest range the page accepts), and the complete
\* form with one field emptied or one date moved.
FormChoices ==
    {BaseForm,
     [BaseForm EXCEPT !.activities = << "trading" >>, !.endDate = DateText(FormStart + 1)],
     [BaseForm EXCEPT !.endDate = DateText(FormStart + maxRangeDays)]}
    \cup {[BaseForm EXCEPT !.dob = <<>>], [BaseForm EXCEPT !.birthTime = <<>>],
          [BaseForm EXCEPT !.gender = ""], [BaseForm EXCEPT !.location = " "],
          [BaseForm EXCEPT !.activities = <<>>],
          [BaseForm EXCEPT !.startDate = <<>>], [BaseForm EXCEPT !.endDate = <<>>],
          [BaseForm EXCEPT !.endDate = DateText(FormStart - 1)],
          [BaseForm EXCEPT !.endDate = DateText(FormStart + maxRangeDays + 1)]}

\* The values of the eight override selects, as the chart the handler builds.
OverrideOf(yearStem, hourBranch) ==
    << [pillar |-> "Year", stem |-> yearStem, branch |-> "Zi"],
       [pillar |-> "Month", stem |-> "Bing", branch |-> "Yin"],
       [pillar |-> "Day", stem |-> "Wu", branch |-> "Wu"],
       [pillar |-> "Hour", stem |-> "Jia", branch |-> hourBranch] >>

OverrideChoices == {OverrideOf("Jia", "Zi"), OverrideOf("Gui", "Hai")}

\* What a click on applyOverrideBtn may find: the selects, and the fields
\* of the form the handler reads.
ApplyChoices ==
    {[override |-> c, activities |-> f.activities, startDate |-> f.startDate,
      endDate |-> f.endDate] :
        c \in OverrideChoices,
        f \in {BaseForm,
                [BaseForm EXCEPT !.activities = << "trading" >>,
                                 !.endDate = DateText(FormStart + 1)],
                [BaseForm EXCEPT !.activities = <<>>],
                [BaseForm EXCEPT !.startDate = <<>>],
                [BaseForm EXCEPT !.endDate = DateText(FormStart - 1)],
                [BaseForm EXCEPT !.endDate = DateText(FormStart + maxRangeDays + 1)]}}

\* loadProfile(): what the page shows after it, from a new document.  A
\* call of getItem that throws ends the try block.
loadProfile(store, fails) ==
    IF fails THEN NothingShown
    ELSE LET withNotice ==
                 IF store.baziProfile # <<>>
                 THEN [NothingShown EXCEPT !.notice =
                          "Loaded your saved profile. You can update any field if needed."]
                 ELSE NothingShown
         IN  IF store.baziOverride # <<>>
             THEN [withNotice EXCEPT
                      !.chart = renderBaZiChart(JsonParse(store.baziOverride)),
                      !.baziHidden = FALSE, !.overrideHidden = FALSE]
             ELSE withNotice

LoadEvent(fails, afterFailed) ==
    [kind |-> "load", form |-> <<>>, storeFailed |-> fails, accepted |-> TRUE,
     afterFailedLoad |-> afterFailed]

\* The page has just been loaded, on a first visit or on a later one of a
\* user who applied an override before.
InitPage ==
    /\ pc = "page"
    /\ saved \in {NoChart} \cup OverrideChoices
    /\ storage = [baziProfile |-> <<>>,
                  baziOverride |-> IF saved = NoChart THEN <<>> ELSE JsonStringify(saved)]
    /\ \E fails \in BOOLEAN :
         /\ shown = loadProfile(storage, fails)
         /\ lastEvent = LoadEvent(fails, FALSE)
    /\ events = 0
    /\ calls = 0
    /\ overrideSaves = 0
    /\ rng = 0
    /\ seed = rng
    /\ start = 0
    /\ end = 0
    /\ activities = <<>>
    /\ outcome = "none"
    /\ goodDates = <<>>
    /\ calendar = <<>>
    /\ dob = <<>>
    /\ time = <<>>
    /\ baziChart = NoChart
    /\ loop = NoLoop

\* Whether the last load event before the next event failed.
FailedLoadBefore == lastEvent.kind = "load" /\ lastEvent.storeFailed

\* The submit handler of the form.  Each const of the handler is bound once
\* to its value.
Submit ==
    /\ pc = "page"
    /\ events < MaxEvents
    /\ \E form \in FormChoices :
         IF SubmitRejects(form)
         THEN /\ lastEvent' = [kind |-> "submit", form |-> form, storeFailed |-> FALSE,
                               accepted |-> FALSE, afterFailedLoad |-> FailedLoadBefore]
              /\ UNCHANGED <<start, end, activities, seed, rng, outcome, goodDates, calendar,
                             dob, time, baziChart, storage, shown, calls>>
         ELSE \E startDate \in {ParseDate(form.startDate)},
                 endDate \in {ParseDate(form.endDate)} :
              \E ret \in {generateGoodDates(startDate, endDate, form.activities, rng)},
                 chart \in {calculateBaZi(form.dob, form.birthTime)},
                 fails \in BOOLEAN :
                    /\ start' = startDate /\ end' = endDate /\ activities' = form.activities
                    /\ seed' = rng /\ rng' = ret.rng /\ outcome' = ret.outcome
                    /\ goodDates' = ret.results
                    /\ calls' = calls + 1
                    /\ storage' = saveProfile(storage,
                                      [dob |-> form.dob, time |-> form.birthTime,
                                       gender |-> form.gender, location |-> Trim(form.location)],
                                      fails)
                    /\ lastEvent' = [kind |-> "submit", form |-> form, storeFailed |-> fails,
                                     accepted |-> TRUE, afterFailedLoad |-> FailedLoadBefore]
                    /\ IF saveProfileEscapes(fails)
                       THEN UNCHANGED <<shown, calendar, dob, time, baziChart>>
                       ELSE /\ dob' = form.dob /\ time' = form.birthTime
                            /\ baziChart' = chart
                            /\ shown' = [shown EXCEPT
                                  !.notice = IF fails THEN shown.notice
                                             ELSE "Profile saved for future visits.",
                                  !.chart = renderBaZiChart(chart),
                                  !.baziHidden = FALSE,
                                  !.explanations = renderExplanations(ret.results),
                                  !.list = renderListResults(ret.results),
                                  !.resultsHidden = FALSE]
                            /\ calendar' = renderCalendarRange(ret.results, startDate, endDate)
    /\ events' = events + 1
    /\ UNCHANGED <<pc, loop, saved, overrideSaves>>

\* The click handler of applyOverrideBtn.
ApplyOverride ==
    /\ pc = "page"
    /\ events < MaxEvents
    /\ \E form \in ApplyChoices, fails \in BOOLEAN :
         LET shownChart == [shown EXCEPT !.chart = renderBaZiChart(form.override),
                                         !.baziHidden = FALSE]
         IN  /\ storage' = IF fails THEN storage
                           ELSE [storage EXCEPT !.baziOverride = JsonStringify(form.override)]
             /\ saved' = IF fails THEN saved ELSE form.override
             /\ overrideSaves' = IF fails THEN overrideSaves ELSE overrideSaves + 1
             /\ lastEvent' = [kind |-> "apply", form |-> form, storeFailed |-> fails,
                              accepted |-> ~ApplyRejects(form),
                              afterFailedLoad |-> FailedLoadBefore]
             /\ IF ApplyRejects(form)
                THEN /\ shown' = shownChart
                     /\ UNCHANGED <<start, end, activities, seed, rng, outcome, goodDates,
                                    calendar, calls>>
                ELSE \E startDate \in {ParseDate(form.startDate)},
                        endDate \in {ParseDate(form.endDate)} :
                     \E ret \in {generateGoodDates(startDate, endDate, form.activities, rng)} :
                         /\ start' = startDate /\ end' = endDate
                         /\ activities' = form.activities
                         /\ seed' = rng /\ rng' = ret.rng /\ outcome' = ret.outcome
                         /\ goodDates' = ret.results
                         /\ calls' = calls + 1
                         /\ shown' = [shownChart EXCEPT
                                         !.list = renderListResults(ret.results),
                                         !.explanations = renderExplanations(ret.results),
                                         !.resultsHidden = FALSE]
                         /\ calendar' = renderCalendarRange(ret.results, startDate, endDate)
    /\ events' = events + 1
    /\ UNCHANGED <<pc, dob, time, baziChart, loop>>

\* The page is loaded again: a new document, then loadProfile().
PageLoad ==
    /\ pc = "page"
    /\ events < MaxEvents
    /\ \E fails \in BOOLEAN :
         /\ shown' = loadProfile(storage, fails)
         /\ lastEvent' = LoadEvent(fails, FailedLoadBefore)
    /\ calendar' = <<>>
    /\ events' = events + 1
    /\ UNCHANGED <<pc, start, end, activities, seed, rng, outcome, goodDates, dob, time,
                   baziChart, loop, storage, calls, saved, overrideSaves>>

Next == Submit \/ ApplyOverride \/ PageLoad

Spec == InitPage /\ [][Next]_vars

(***************************************************************************)
(* The two rejection-sampling loops of generateGoodDates, one iteration    *)
(* per step, every draw of Math.random free.  Only what the loop           *)
(* conditions read is kept: selectedDates (results has one entry per key), *)
(* the index i of the trading loop, and usedSlots and picks of the         *)
(* activity k whose slots are being picked.  loop.repeated tells that the  *)
(* last draw was rejected.                                                 *)
(***************************************************************************)
LoopDiffDays == diffDaysOf(start, end)
LoopWanted == numberOfSuggestions(LoopDiffDays, tradingSelected(activities))

InitLoops ==
    /\ pc = "looping"
    /\ start = NewDate(2024, 0, 30)
    /\ end \in {start + n : n \in 0..MaxLoopSpan}
    /\ activities \in {SelectedOf({c}) : c \in Selectable}
    /\ loop = [NoLoop EXCEPT !.at = "days"]
    /\ seed = 0
    /\ rng = 0
    /\ outcome = "none"
    /\ goodDates = <<>>
    /\ calendar = <<>>
    /\ dob = <<>>
    /\ time = <<>>
    /\ baziChart = NoChart
    /\ PageIdle

LoopFrame ==
    UNCHANGED <<pc, start, end, activities, seed, rng, outcome, goodDates, calendar, dob, time,
                baziChart, pageVars>>

\* buildHourRecommendations() is entered: the first activity, no slot used.
EnterHours(l) == [l EXCEPT !.at = "slots", !.k = 1, !.usedSlots = {}, !.picks = 0, !.repeated = FALSE]

\* for (let i = 0; i < diffDays; i++): one day of the trading branch.
TradingDay ==
    /\ loop.at = "days"
    /\ tradingSelected(activities)
    /\ loop.i < LoopDiffDays
    /\ loop' = EnterHours([loop EXCEPT !.i = loop.i + 1])
    /\ LoopFrame

\* while (selectedDates.size < numberOfSuggestions): a draw of a new date.
DrawNewDate ==
    /\ loop.at = "days"
    /\ ~tradingSelected(activities)
    /\ Cardinality(loop.selectedDates) < LoopWanted
    /\ \E offset \in 0..(LoopDiffDays - 1) :
          LET dateKey == toDateString(CandidateDate(start, offset))
          IN  /\ DateIsNew(dateKey, loop.selectedDates)
              /\ loop' = EnterHours([loop EXCEPT !.selectedDates = loop.selectedDates \cup {dateKey}])
    /\ LoopFrame

\* ... a draw of a date already selected: nothing is pushed.
DrawSelectedDate ==
    /\ loop.at = "days"
    /\ ~tradingSelected(activities)
    /\ Cardinality(loop.selectedDates) < LoopWanted
    /\ \E offset \in 0..(LoopDiffDays - 1) :
          /\ ~DateIsNew(toDateString(CandidateDate(start, offset)), loop.selectedDates)
          /\ loop' = [loop EXCEPT !.repeated = TRUE]
    /\ LoopFrame

\* while (picks < slotsNeeded): a draw of a slot not yet used.
DrawFreeSlot ==
    /\ loop.at = "slots"
    /\ loop.k <= Len(activities)
    /\ loop.picks < slotsNeeded
    /\ \E n \in 1..Len(timeSlots) :
          /\ SlotIsFree(timeSlots[n], loop.usedSlots)
          /\ loop' = [loop EXCEPT !.usedSlots = loop.usedSlots \cup {timeSlots[n]},
                                   !.picks = loop.picks + 1, !.repeated = FALSE]
    /\ LoopFrame

\* ... a draw of a slot already used.
DrawUsedSlot ==
    /\ loop.at = "slots"
    /\ loop.k <= Len(activities)
    /\ loop.picks < slotsNeeded
    /\ \E n \in 1..Len(timeSlots) :
          /\ ~SlotIsFree(timeSlots[n], loop.usedSlots)
          /\ loop' = [loop EXCEPT !.repeated = TRUE]
    /\ LoopFrame

\* The while loop of an activity is left: forEach goes to the next activity.
NextActivity ==
    /\ loop.at = "slots"
    /\ loop.k <= Len(activities)
    /\ ~(loop.picks < slotsNeeded)
    /\ loop' = [loop EXCEPT !.k = loop.k + 1, !.usedSlots = {}, !.picks = 0, !.repeated = FALSE]
    /\ LoopFrame

\* return hours: back in the loop over the days.
HoursDone ==
    /\ loop.at = "slots"
    /\ loop.k > Len(activities)
    /\ loop' = [loop EXCEPT !.at = "days", !.k = 0]
    /\ LoopFrame

\* The loop over the days is left: the sort and the return follow.
LoopExit ==
    /\ loop.at = "days"
    /\ IF tradingSelected(activities)
       THEN ~(loop.i < LoopDiffDays)
       ELSE ~(Cardinality(loop.selectedDates) < LoopWanted)
    /\ loop' = [loop EXCEPT !.at = "done"]
    /\ LoopFrame

NextLoops ==
    \/ TradingDay \/ DrawNewDate \/ DrawSelectedDate
    \/ DrawFreeSlot \/ DrawUsedSlot \/ NextActivity \/ HoursDone \/ LoopExit

\* The steps that are not a rejected draw.
Progress ==
    TradingDay \/ DrawNewDate \/ DrawFreeSlot \/ NextActivity \/ HoursDone \/ LoopExit

\* The program runs on, and a fair random source yields a value that stays
\* possible: a date not yet selected, a slot not yet used.
SpecLoops == InitLoops /\ [][NextLoops]_vars /\ WF_vars(Progress)

(***************************************************************************)
(* The calendar renderer, applied to every month of a span of years that   *)
(* holds every shape of month, and to entries that need not come from the  *)
(* sampler.                                                                *)
(***************************************************************************)
GridYears == 2000..(2000 + MaxGridYears - 1)

\* An entry as renderCalendarRange reads it: its date and its bad flag.
EntryAt(date, isBad) ==
    [date |-> date, reasons |-> generateReasonForDate(date, <<>>, isBad, 0).text,
     hours |-> <<>>, bad |-> isBad]

\* No entry, one entry, and the same date with both flags in both orders.
EntryChoices(date) ==
    { <<>>, <<EntryAt(date, FALSE)>>, <<EntryAt(date, TRUE)>>,
      <<EntryAt(date, FALSE), EntryAt(date, TRUE)>>,
      <<EntryAt(date, TRUE), EntryAt(date, FALSE)>> }

InitCalendar ==
    /\ pc = "generated"
    /\ start \in {NewDate(y, m, 10) : y \in GridYears, m \in 0..11}
    /\ end = start
    /\ goodDates \in EntryChoices(start)
    /\ activities = <<>>
    /\ seed = 0
    /\ rng = 0
    /\ outcome = "returned"
    /\ calendar = <<>>
    /\ dob = <<>>
    /\ time = <<>>
    /\ baziChart = NoChart
    /\ loop = NoLoop
    /\ PageIdle

NextCalendar == CallRenderCalendarRange

SpecCalendar == InitCalendar /\ [][NextCalendar]_vars

(***************************************************************************)
(* Properties of generateGoodDates (SpecSampler).                          *)
(***************************************************************************)
Returned == pc \in {"generated", "rendered"}
ValidRange == end >= start
Entries == 1..Len(goodDates)

\* C1: for a valid range the dates of the returned entries are pairwise
\* distinct and each lies within [start, end], on both paths.
C1_DistinctWithinRange ==
    (Returned /\ ValidRange) =>
        /\ \A i, j \in Entries : i # j => goodDates[i].date # goodDates[j].date
        /\ \A i \in Entries : start <= goodDates[i].date /\ goodDates[i].date <= end

\* The sampling path returned the 12 entries of a range of more than 30 days.
C1_Witness ==
    /\ Returned /\ ValidRange /\ ~tradingSelected(activities)
    /\ Len(goodDates) = 12
    /\ \E i \in Entries : getMonth(goodDates[i].date) # getMonth(start)

\* C2: with trading selected the number of returned entries is the inclusive
\* day count of the range, one entry for each day of the range.
C2_TradingEveryDay ==
    (Returned /\ ValidRange /\ tradingSelected(activities)) =>
        /\ Len(goodDates) = end - start + 1
        /\ \A d \in start..end : Cardinality({i \in Entries : goodDates[i].date = d}) = 1

C2_Witness ==
    /\ Returned /\ tradingSelected(activities)
    /\ end - start >= 30
    /\ Len(goodDates) = end - start + 1

\* C3: without trading the number of returned entries is min(cap, diffDays),
\* cap being 3 up to 7 days, 6 up to 30 days and 12 beyond.
C3_SampleCount ==
    (Returned /\ ValidRange /\ ~tradingSelected(activities)) =>
        LET days == end - start + 1
            cap == IF days <= 7 THEN 3 ELSE IF days <= 30 THEN 6 ELSE 12
        IN  Len(goodDates) = (IF cap <= days THEN cap ELSE days)

\* A range of exactly 7 days, the last of the 3-entry bucket.
C3_Witness ==
    /\ Returned /\ ~tradingSelected(activities)
    /\ end - start + 1 = 7
    /\ Len(goodDates) = 3

\* C4: the returned entries are in ascending order of date.
C4_SortedAscending ==
    Returned => \A i, j \in Entries : i < j => goodDates[i].date <= goodDates[j].date

\* The loop pushed the entries out of order, and they came back in order.
C4_Witness ==
    /\ Returned /\ Len(goodDates) >= 3
    /\ LET pushed == GeneratedEntries(start, end, activities, seed).results
       IN  \E i, j \in 1..Len(pushed) : i < j /\ pushed[i].date > pushed[j].date
    /\ \A i, j \in Entries : i < j => goodDates[i].date < goodDates[j].date

\* The recommendations of entry i for the activity act, in order.
HoursFor(i, act) == SelectSeq(goodDates[i].hours, LAMBDA h : h.activity = act)

\* C5: for every returned entry and every selected activity the entry has
\* exactly 3 recommendations for the activity, with pairwise distinct slots
\* of the slot table.
C5_ThreeDistinctSlots ==
    Returned =>
        \A i \in Entries : \A k \in 1..Len(activities) :
            LET hs == HoursFor(i, activities[k])
            IN  /\ Len(hs) = 3
                /\ \A a, b \in 1..Len(hs) : a # b => hs[a].time # hs[b].time
                /\ \A a \in 1..Len(hs) : \E t \in 1..Len(timeSlots) : hs[a].time = timeSlots[t]

\* An entry of two activities in which a slot recurs across the activities.
C5_Witness ==
    /\ Returned /\ Len(activities) = 2
    /\ \E i \in Entries :
          /\ Len(goodDates[i].hours) = 6
          /\ \E a, b \in 1..6 : /\ goodDates[i].hours[a].activity # goodDates[i].hours[b].activity
                                /\ goodDates[i].hours[a].time = goodDates[i].hours[b].time

\* C6: on an invalid range (end before start) the sampler fails with an
\* InvalidRangeError instead of returning zero entries.
C6_InvalidRangeFails ==
    (Returned /\ ~ValidRange) => outcome = "InvalidRangeError"

(***************************************************************************)
(* Properties of calculateBaZi (SpecBaZi).                                 *)
(***************************************************************************)
Computed == pc = "computed"

\* C7: for the birth year 1984 the Year pillar is the first stem and the
\* first branch, Jia and Zi.
C7_Year1984JiaZi ==
    (Computed /\ \E m \in BirthMonths, d \in BirthDays : dob = DobText(1984, m, d)) =>
        /\ baziChart[1].pillar = "Year"
        /\ baziChart[1].stem = stems[1] /\ baziChart[1].stem = "Jia"
        /\ baziChart[1].branch = branches[1] /\ baziChart[1].branch = "Zi"

\* calculateBaZi('1984-01-01', '00:00')
C7_Witness ==
    Computed /\ dob = DobText(1984, 1, 1) /\ time = TimeText(0, 0)

Range(seq) == {seq[k] : k \in 1..Len(seq)}

\* C8: for every year, month, day and hour the chart has the four pillars
\* Year, Month, Day, Hour in this order, each with a stem of the stem table
\* and a branch of the branch table.
C8_FourDefinedPillars ==
    Computed =>
        /\ Len(baziChart) = 4
        /\ [k \in 1..4 |-> baziChart[k].pillar] = << "Year", "Month", "Day", "Hour" >>
        /\ \A k \in 1..4 : /\ baziChart[k].stem \in Range(stems)
                           /\ baziChart[k].branch \in Range(branches)

\* The remainder of the year was negative and the hour was negative.
C8_Witness ==
    /\ Computed
    /\ JsRem(Number(split(dob, "-")[1]) - 4, 10) < 0
    /\ JsRem(Number(split(dob, "-")[1]) - 4, 12) < 0
    /\ Number(split(time, ":")[1]) < 0

(***************************************************************************)
(* Properties of renderCalendarRange (SpecSampler).                        *)
(***************************************************************************)
Rendered == pc = "rendered"

\* The months counted from year 0.
MonthNumber(date) == getFullYear(date) * 12 + getMonth(date)

\* C9: there is one table for each month from the month of start to the
\* month of end, in order; 1 January to 1 February gives January, February.
C9_OneGridPerMonth ==
    (Rendered /\ ValidRange) =>
        /\ Len(calendar) = MonthNumber(end) - MonthNumber(start) + 1
        /\ \A k \in 1..Len(calendar) :
              calendar[k].year * 12 + calendar[k].month = MonthNumber(start) + k - 1
        /\ (start = NewDate(2024, 0, 1) /\ end = NewDate(2024, 1, 1)) =>
              /\ Len(calendar) = 2
              /\ <<calendar[1].year, calendar[1].month>> = <<2024, 0>>
              /\ <<calendar[2].year, calendar[2].month>> = <<2024, 1>>

\* A range from December into January of the next year.
C9_Witness ==
    /\ Rendered
    /\ getFullYear(start) = 2023 /\ getFullYear(end) = 2024
    /\ Len(calendar) = 2

\* The day cells of the tables: table, row and column.
DayCells ==
    {p \in (1..Len(calendar)) \X (1..6) \X (1..7) :
        /\ p[2] <= Len(calendar[p[1]].rows)
        /\ calendar[p[1]].rows[p[2]][p[3]].day # 0}
CellAt(p) == calendar[p[1]].rows[p[2]][p[3]]
CellDate(p) == NewDate(calendar[p[1]].year, calendar[p[1]].month, CellAt(p).day)
Flagged == {p \in DayCells : CellAt(p).class # ""}

\* C10: the flagged cells are the dates of the entries, each flagged once
\* with the class of its flag, every other cell unflagged; a single-day
\* range yields one table whose only flagged cell is that day.
C10_FlaggedAreEntries ==
    (Rendered /\ ValidRange) =>
        /\ \A p \in DayCells :
              CellAt(p).class =
                 (IF \E i \in Entries : goodDates[i].date = CellDate(p) /\ goodDates[i].bad
                  THEN "bad-date"
                  ELSE IF \E i \in Entries : goodDates[i].date = CellDate(p)
                       THEN "good-date" ELSE "")
        /\ \A i \in Entries :
              Cardinality({p \in Flagged : CellDate(p) = goodDates[i].date}) = 1
        /\ \A g \in 1..Len(calendar) : \A r \in 1..Len(calendar[g].rows) : \A c \in 1..7 :
              calendar[g].rows[r][c].day = 0 => calendar[g].rows[r][c].class = ""
        /\ (start = end) =>
              /\ Len(calendar) = 1
              /\ Cardinality(Flagged) = 1
              /\ \A p \in Flagged : CellDate(p) = start

\* Two tables, with an unfavorable and a favorable day among the entries.
C10_Witness ==
    /\ Rendered /\ ValidRange
    /\ Len(calendar) = 2
    /\ \E i, j \in Entries : goodDates[i].bad /\ ~goodDates[j].bad
    /\ \E p \in Flagged : CellAt(p).class = "bad-date"

(***************************************************************************)
(* Further properties of generateGoodDates (SpecSampler).                  *)
(***************************************************************************)
\* C15: the returned list never has more than six entries, as the comment
\* of generateGoodDates says ("up to six unique dates").
C15_AtMostSix == Returned => Len(goodDates) <= 6

\* C16: the reason of an entry opens with "Unfavorable influences for"
\* exactly if the entry is bad and with "Auspicious influences for"
\* otherwise; without trading no entry is bad.
C16_ReasonMatchesFlag ==
    Returned =>
        /\ \A i \in Entries :
              /\ goodDates[i].reasons.template = "Unfavorable influences for" <=> goodDates[i].bad
              /\ goodDates[i].reasons.template = "Auspicious influences for" <=> ~goodDates[i].bad
        /\ ~tradingSelected(activities) => \A i \in Entries : ~goodDates[i].bad

\* A trading result with a bad and a good day.
C16_Witness ==
    /\ Returned /\ tradingSelected(activities)
    /\ \E i, j \in Entries :
          /\ goodDates[i].bad /\ goodDates[i].reasons.template = "Unfavorable influences for"
          /\ ~goodDates[j].bad /\ goodDates[j].reasons.template = "Auspicious influences for"

(***************************************************************************)
(* Properties of renderMonth (SpecCalendar).                               *)
(***************************************************************************)
\* The weekday of the first day and the number of days of the month of a table.
OffsetOf(table) == getDay(NewDate(table.year, table.month, 1))
TotalDaysOf(table) == getDate(NewDate(table.year, table.month + 1, 0))

\* The n-th cell of a table, counted row by row.
NthCell(table, n) == table.rows[((n - 1) \div 7) + 1][((n - 1) % 7) + 1]

\* C11: a table has at most 6 rows of exactly 7 cells; the first row begins
\* with as many empty cells as the weekday of the first day; then the days
\* 1 .. totalDays follow, each once and in order; the cells after the last
\* day are empty.
C11_GridShape ==
    Rendered =>
        \A g \in 1..Len(calendar) :
            LET table == calendar[g]
                offset == OffsetOf(table)
                total == TotalDaysOf(table)
                cells == 7 * Len(table.rows)
            IN  /\ Len(table.rows) <= 6
                /\ \A r \in 1..Len(table.rows) : Len(table.rows[r]) = 7
                /\ offset \in 0..6 /\ total \in 28..31
                /\ offset + total <= cells
                /\ \A n \in 1..cells :
                      NthCell(table, n).day =
                         (IF n > offset /\ n <= offset + total THEN n - offset ELSE 0)

\* A month of 31 days that begins on a Saturday, in 6 rows.
C11_Witness ==
    /\ Rendered /\ Len(calendar) = 1
    /\ OffsetOf(calendar[1]) = 6 /\ TotalDaysOf(calendar[1]) = 31
    /\ Len(calendar[1].rows) = 6
    /\ calendar[1].rows[6][2].day = 31

\* C12: a cell whose date is among the entries with the bad flag has the
\* class bad-date, also when the same date is among the entries without the
\* flag; a cell has one class at most.
C12_UnfavorableWins ==
    Rendered =>
        \A p \in DayCells :
            /\ (\E i \in Entries : goodDates[i].date = CellDate(p) /\ goodDates[i].bad)
                  => CellAt(p).class = "bad-date"
            /\ CellAt(p).class \in {"", "good-date", "bad-date"}

\* The date is among the entries with both flags, and its cell is bad-date.
C12_Witness ==
    /\ Rendered
    /\ \E i, j \in Entries : /\ goodDates[i].date = goodDates[j].date
                             /\ goodDates[i].bad /\ ~goodDates[j].bad
    /\ \E p \in DayCells : CellDate(p) = start /\ CellAt(p).class = "bad-date"

(***************************************************************************)
(* Termination of the loops (SpecLoops).                                   *)
(***************************************************************************)
\* C19: for every valid range both loops terminate under a fair random
\* source: the count of days asked for never exceeds the days of the range,
\* 3 slots are asked for of a table of 9, and the loops are left eventually.
C19_LoopsTerminate ==
    /\ [](/\ \A d \in 1..(MaxSpan + 1) :
                /\ numberOfSuggestions(d, FALSE) <= d
                /\ numberOfSuggestions(d, TRUE) <= d
           /\ LoopWanted <= LoopDiffDays
           /\ slotsNeeded <= Len(timeSlots))
    /\ <>(loop.at = "done")

\* The loops were left after the 3 days of a range of 3 days were selected.
C19_Witness ==
    /\ loop.at = "done" /\ ~tradingSelected(activities)
    /\ LoopDiffDays = 3 /\ Cardinality(loop.selectedDates) = 3

(***************************************************************************)
(* Claims about the page, checked under Spec.                              *)
(***************************************************************************)
PillarOrder == << "Year", "Month", "Day", "Hour" >>

\* The chart the page shows is the four tuples of a chart, in order.
ShowsChart(chart) ==
    /\ Len(shown.chart) = 4
    /\ \A k \in 1..4 :
         /\ shown.chart[k] = <<chart[k].pillar, chart[k].stem, chart[k].branch>>
         /\ shown.chart[k][1] = PillarOrder[k]

\* C13: an override chart saved by apply-override and read back by
\* loadProfile is the same four (pillar, stem, branch) tuples in the order
\* Year, Month, Day, Hour: the stored text parses back to the chart that was
\* saved, and a load that reads the store shows exactly that chart.
C13_OverrideRoundTrip ==
    /\ storage.baziOverride # <<>> => JsonParse(storage.baziOverride) = saved
    /\ (lastEvent.kind = "load" /\ ~lastEvent.storeFailed /\ saved # NoChart)
          => ShowsChart(saved)

C13_Witness ==
    /\ lastEvent.kind = "load" /\ ~lastEvent.storeFailed
    /\ overrideSaves = 1
    /\ saved = OverrideOf("Gui", "Hai")
    /\ shown.chart[1] = << "Year", "Gui", "Zi" >>
    /\ shown.chart[4] = << "Hour", "Jia", "Hai" >>

\* C14: a failure of the store is not fatal.  An accepted submission shows
\* the computed pillars and the results of its own call of the sampler even
\* when saving the profile throws and even after a load that failed; an
\* apply-override whose save throws still shows the override chart; a load
\* that fails leaves a page that shows nothing and accepts later events.
C14_StoreFailureNotFatal ==
    /\ (lastEvent.kind = "submit" /\ lastEvent.accepted)
          => /\ ShowsChart(calculateBaZi(lastEvent.form.dob, lastEvent.form.birthTime))
             /\ ~shown.baziHidden /\ ~shown.resultsHidden
             /\ start = ParseDate(lastEvent.form.startDate)
             /\ end = ParseDate(lastEvent.form.endDate)
             /\ Len(goodDates) >= 1
             /\ shown.list = renderListResults(goodDates)
             /\ shown.explanations = renderExplanations(goodDates)
             /\ calendar = renderCalendarRange(goodDates, start, end)
    /\ (lastEvent.kind = "apply" /\ lastEvent.storeFailed)
          => ShowsChart(lastEvent.form.override) /\ ~shown.baziHidden
    /\ (lastEvent.kind = "load" /\ lastEvent.storeFailed) => shown = NothingShown

C14_Witness ==
    /\ lastEvent.kind = "submit" /\ lastEvent.accepted
    /\ lastEvent.storeFailed /\ lastEvent.afterFailedLoad
    /\ storage.baziProfile = <<>>
    /\ Len(shown.list) = 2 /\ Len(calendar) = 1
    /\ shown.chart[1] = << "Year", "Jia", "Zi" >>

\* C17 as stated: once an override chart has been saved by apply-override,
\* every later page load displays it.
C17_EveryLoadShowsOverride ==
    (lastEvent.kind = "load" /\ overrideSaves > 0) => ShowsChart(saved)

\* C17, amended: once an override chart has been saved, every later page
\* load that can read the store displays it (a load on which the store
\* throws displays no chart), whatever was submitted in between: a
\* submission displays the computed chart and leaves the stored override as
\* it was, and the stored override is always the text of the chart saved
\* last.
C17_LoadShowsOverrideWhenRead ==
    /\ [](/\ storage.baziOverride =
                IF saved = NoChart THEN <<>> ELSE JsonStringify(saved)
          /\ (lastEvent.kind = "load" /\ saved # NoChart)
                => IF lastEvent.storeFailed THEN shown.chart = <<>> ELSE ShowsChart(saved)
          /\ (lastEvent.kind = "submit" /\ lastEvent.accepted) => ShowsChart(baziChart))
    /\ [][lastEvent'.kind = "submit"
            => storage'.baziOverride = storage.baziOverride /\ saved' = saved]_vars

C17_Witness ==
    /\ lastEvent.kind = "load" /\ ~lastEvent.storeFailed
    /\ events = 2 /\ calls = 1 /\ storage.baziProfile # <<>>
    /\ saved = OverrideOf("Gui", "Hai")
    /\ shown.chart[1] = << "Year", "Gui", "Zi" >>

\* The form of a submission fails validation: a required field is missing,
\* no activity is selected, the end is before the start, or the end is more
\* than 92 days after the start.
FormInvalid(form) ==
    \/ \E field \in {form.dob, form.birthTime, form.startDate, form.endDate} : Len(field) = 0
    \/ form.gender = "" \/ form.location \in {"", " "}
    \/ form.activities = <<>>
    \/ LET span == ParseDate(form.endDate) - ParseDate(form.startDate)
       IN  span < 0 \/ span > 92

\* C18: a submission that fails validation changes nothing but the record
\* of the event: the sampler is not called (no draw is made), the store, the
\* chart and the results shown stay as they were; and every call of the
\* sampler by the submit handler has end >= start and end - start <= 92.
C18_InvalidSubmissionChangesNothing ==
    /\ [][(lastEvent'.kind = "submit" /\ events' = events + 1
             /\ FormInvalid(lastEvent'.form))
            => /\ ~lastEvent'.accepted
               /\ calls' = calls /\ rng' = rng
               /\ storage' = storage
               /\ shown' = shown /\ calendar' = calendar
               /\ goodDates' = goodDates /\ baziChart' = baziChart]_vars
    /\ [][(lastEvent'.kind = "submit" /\ calls' # calls)
            => /\ calls' = calls + 1
               /\ ~FormInvalid(lastEvent'.form)
               /\ start' = ParseDate(lastEvent'.form.startDate)
               /\ end' = ParseDate(lastEvent'.form.endDate)
               /\ end' >= start' /\ end' - start' <= 92]_vars

C18_Witness ==
    /\ lastEvent.kind = "submit" /\ ~lastEvent.accepted
    /\ lastEvent.form.startDate = DateText(FormStart)
    /\ lastEvent.form.endDate = DateText(FormStart + 93)
    /\ events = 2 /\ calls = 1
    /\ ~shown.resultsHidden /\ Len(shown.list) = 2 /\ Len(calendar) = 1
    /\ storage.baziProfile # <<>>

\* The range of an apply-override is missing, has its end before its start,
\* or spans more than 92 days.
RangeInvalid(form) ==
    \/ Len(form.startDate) = 0 \/ Len(form.endDate) = 0
    \/ LET span == ParseDate(form.endDate) - ParseDate(form.startDate)
       IN  span < 0 \/ span > 92

\* An apply-override with an invalid range happens in this step.
InvalidApplyStep ==
    /\ lastEvent'.kind = "apply" /\ events' = events + 1
    /\ RangeInvalid(lastEvent'.form)

ResultsUntouched ==
    /\ calls' = calls /\ rng' = rng /\ goodDates' = goodDates
    /\ calendar' = calendar
    /\ shown'.list = shown.list /\ shown'.explanations = shown.explanations
    /\ shown'.resultsHidden = shown.resultsHidden

OverrideShownNext ==
    /\ ~shown'.baziHidden
    /\ shown'.chart = renderBaZiChart(lastEvent'.form.override)

\* C20 as stated: with an invalid range the override chart is persisted and
\* shown, the sampler is not called and the results shown are unchanged.
C20_OverridePersistedAndShown ==
    [][InvalidApplyStep
         => /\ storage'.baziOverride = JsonStringify(lastEvent'.form.override)
            /\ OverrideShownNext
            /\ ResultsUntouched]_vars

\* C20, amended: with an invalid range the override chart is shown, and it
\* is persisted unless the store throws on the save, in which case the
\* stored override stays as it was; the sampler is not called and the
\* results shown are unchanged.
C20_OverrideShownAndSavedUnlessStoreFails ==
    [][InvalidApplyStep
         => /\ storage'.baziOverride =
                  IF lastEvent'.storeFailed THEN storage.baziOverride
                  ELSE JsonStringify(lastEvent'.form.override)
            /\ storage'.baziProfile = storage.baziProfile
            /\ OverrideShownNext
            /\ ResultsUntouched]_vars

C20_Witness ==
    /\ lastEvent.kind = "apply" /\ ~lastEvent.accepted /\ ~lastEvent.storeFailed
    /\ lastEvent.form.startDate = DateText(FormStart)
    /\ lastEvent.form.endDate = DateText(FormStart - 1)
    /\ events = 2 /\ calls = 1
    /\ ~shown.resultsHidden /\ Len(shown.list) = 2
    /\ lastEvent.form.override = OverrideOf("Gui", "Hai")
    /\ storage.baziOverride = JsonStringify(OverrideOf("Gui", "Hai"))
    /\ shown.chart[1] = << "Year", "Gui", "Zi" >>

====
